---- MODULE Spec2Model ----
(***************************************************************************)
(* Payment transaction reconciliation of the catering platform:           *)
(*   supabase/functions/create-payment/index.ts  (version 7.0 handler)     *)
(*   supabase/functions/payment-webhook/index.ts (version 7.0 handler)     *)
(*                                                                         *)
(* Strings that the code builds and parses (transaction ids, signature     *)
(* input) are sequences of tokens, so that prefix tests, prefix removal    *)
(* and concatenation are computed and not assumed.  The orders table is a  *)
(* function from the primary key to the row; the column updated_at is      *)
(* left out (no handler reads it).                                         *)
(***************************************************************************)
EXTENDS Integers, Sequences, FiniteSets, TLC

VARIABLES
    orders,     \* the orders table: primary key -> row
    env,        \* process environment (Deno.env) of the edge functions
    clock,      \* Date.now() in milliseconds
    gateway,    \* the payment gateway: calls received, transactions created,
                \* and the payloads it created them from
    resp,       \* the HTTP response of the last handler run
    hist,       \* the request handled last and how often in a row it was handled
    arg,        \* input of the pure function under test
    res,        \* its result
    jobs        \* handler runs in flight: each one's request, position and
                \* what it read

vars == <<orders, env, clock, gateway, resp, hist, arg, res, jobs>>

\* null / undefined of a nullable column or environment variable.  Nullable
\* strings are token sequences and nullable numbers are <<n>>, so the absent
\* value is the empty sequence (the code tests these with !x or === null).
NULL == <<>>

Some(x) == <<x>>

\* an optional plain-string field that the sender left out
ABSENT == "undefined"

\* ------------------------------------------------------------------------
\* Types and enums
\* ------------------------------------------------------------------------

PENDING == "pending"
PAID == "paid"
CONFIRMED == "confirmed"
FAILED == "failed"
EXPIRED == "expired"
CANCELLED == "cancelled"

OrderStatus == {PENDING, PAID, CONFIRMED, FAILED, EXPIRED, CANCELLED}

\* the four values of the webhook's own OrderStatus enum
HookOrderStatus == {PENDING, PAID, FAILED, EXPIRED}

MidtransStatus ==
    {"capture", "settlement", "pending", "deny", "cancel", "expire",
     "refund", "partial_refund", "authorize"}

FraudStatus == {"accept", "challenge", "deny"}

QRIS == "qris"
BANK_TRANSFER == "bank_transfer"
CASH == "cash"

\* ------------------------------------------------------------------------
\* Token strings
\* ------------------------------------------------------------------------

\* well-formed UUID strings (the strings UUID_REGEX accepts)
Uuids == {"o1", "o2", "o3"}

StartsWith(s, p) == Len(s) >= Len(p) /\ SubSeq(s, 1, Len(p)) = p

\* String.prototype.replace(p, ""): removes the first occurrence of p
RemoveFirst(s, p) ==
    LET at == {i \in 1..(Len(s) - Len(p) + 1) : SubSeq(s, i, i + Len(p) - 1) = p}
    IN  IF at = {} THEN s
        ELSE LET i == CHOOSE j \in at : \A k \in at : j <= k
             IN  SubSeq(s, 1, i - 1) \o SubSeq(s, i + Len(p), Len(s))

UUID_REGEX_test(s) == Len(s) = 1 /\ s[1] \in Uuids

\* ------------------------------------------------------------------------
\* payment-webhook: constants and helpers
\* ------------------------------------------------------------------------

HOOK_DAPOER_PREFIX == <<"DAPOER", "-">>
BULK_PREFIX == <<"DAPOER", "-", "BULK", "-">>

\* SHA-512 as an ideal (collision-free) hash of the signed string
calculateSignature(orderId, statusCode, grossAmount, serverKey) ==
    <<"sha512", orderId \o statusCode \o grossAmount \o serverKey>>

validateSignatureNoKeyCheck(notification) ==
    calculateSignature(notification.order_id, notification.status_code,
                       notification.gross_amount,
                       IF env.MIDTRANS_SERVER_KEY = NULL THEN <<>>
                       ELSE env.MIDTRANS_SERVER_KEY)
        = notification.signature_key

validateSignature(notification) ==
    IF env.MIDTRANS_SERVER_KEY = NULL THEN FALSE
    ELSE calculateSignature(notification.order_id, notification.status_code,
                            notification.gross_amount, env.MIDTRANS_SERVER_KEY)
            = notification.signature_key

mapTransactionStatusSettlementPending(transactionStatus, fraudStatus) ==
    CASE transactionStatus = "capture" ->
            IF fraudStatus = "accept" THEN PAID
            ELSE IF fraudStatus = "challenge" THEN PENDING
            ELSE FAILED
      [] transactionStatus \in {"pending", "authorize", "settlement"} -> PENDING
      [] transactionStatus = "expire" -> EXPIRED
      [] transactionStatus \in {"deny", "cancel", "refund", "partial_refund"} -> FAILED
      [] OTHER -> PENDING

mapTransactionStatus(transactionStatus, fraudStatus) ==
    CASE transactionStatus = "capture" ->
            IF fraudStatus = "accept" THEN PAID
            ELSE IF fraudStatus = "challenge" THEN PENDING
            ELSE FAILED
      [] transactionStatus = "settlement" -> PAID
      [] transactionStatus \in {"pending", "authorize"} -> PENDING
      [] transactionStatus = "expire" -> EXPIRED
      [] transactionStatus \in {"deny", "cancel", "refund", "partial_refund"} -> FAILED
      [] OTHER -> PENDING

isDapoerTransaction(orderId) == StartsWith(orderId, HOOK_DAPOER_PREFIX)

isBulkTransaction(orderId) == StartsWith(orderId, BULK_PREFIX)

extractOrderUuid(orderId) ==
    IF isBulkTransaction(orderId) THEN NULL
    ELSE LET uuid == RemoveFirst(orderId, HOOK_DAPOER_PREFIX)
         IN  IF UUID_REGEX_test(uuid) THEN uuid ELSE NULL

createAdminClientOk ==
    env.SUPABASE_URL # NULL /\ env.SUPABASE_SERVICE_ROLE_KEY # NULL

\* Store faults a query can meet: none, the select fails, the update fails
Faults == {"none", "read", "write"}

\* Result of an update function: the table afterwards, the returned count,
\* and whether it threw
Outcome(tbl, n, threw) == [orders |-> tbl, count |-> n, threw |-> threw]

\* re-opens a row that already has the incoming status
SetStatusReopenDuplicate(tbl, ids, status) ==
    [o \in DOMAIN tbl |->
        IF o \in ids
        THEN [tbl[o] EXCEPT !.status = IF tbl[o].status = status /\ status # PENDING
                                       THEN PENDING ELSE status]
        ELSE tbl[o]]

\* .update({ status }) on the rows ids
SetStatus(tbl, ids, status) ==
    [o \in DOMAIN tbl |-> IF o \in ids THEN [tbl[o] EXCEPT !.status = status]
                          ELSE tbl[o]]

\* the skip test of both update functions
SkipsDowngradeNever(rowStatus, status) == FALSE

SkipsDowngrade(rowStatus, status) == rowStatus = PAID /\ status # PAID

\* treats a missing row as an error of the select (.single())
updateSingleOrderSingle(tbl, orderId, status, fault) ==
    IF fault = "read" \/ orderId \notin DOMAIN tbl THEN Outcome(tbl, 0, TRUE)
    ELSE IF SkipsDowngrade(tbl[orderId].status, status) THEN Outcome(tbl, 0, FALSE)
    ELSE IF fault = "write" THEN Outcome(tbl, 0, TRUE)
    ELSE Outcome(SetStatus(tbl, {orderId}, status), 1, FALSE)

updateSingleOrder(tbl, orderId, status, fault) ==
    IF fault = "read" THEN Outcome(tbl, 0, TRUE)
    ELSE IF orderId \notin DOMAIN tbl THEN Outcome(tbl, 0, FALSE)
    ELSE IF SkipsDowngrade(tbl[orderId].status, status) THEN Outcome(tbl, 0, FALSE)
    ELSE IF fault = "write" THEN Outcome(tbl, 0, TRUE)
    ELSE Outcome(SetStatus(tbl, {orderId}, status), 1, FALSE)

updateBulkOrders(tbl, transactionId, status, fault) ==
    LET found == {o \in DOMAIN tbl : tbl[o].transaction_id = transactionId}
        orderIdsToUpdate == {o \in found : ~SkipsDowngrade(tbl[o].status, status)}
    IN  IF fault = "read" THEN Outcome(tbl, 0, TRUE)
        ELSE IF found = {} THEN Outcome(tbl, 0, FALSE)
        ELSE IF orderIdsToUpdate = {} THEN Outcome(tbl, 0, FALSE)
        ELSE IF fault = "write" THEN Outcome(tbl, 0, TRUE)
        ELSE Outcome(SetStatus(tbl, orderIdsToUpdate, status),
                     Cardinality(orderIdsToUpdate), FALSE)

\* resp.endpoint names the function that answered; it is not part of the body
successResponseErrorStatus(data) ==
    [endpoint |-> "payment-webhook",
     status |-> IF data.success THEN 200 ELSE 500, body |-> data]

successResponse(data) ==
    [endpoint |-> "payment-webhook", status |-> 200, body |-> data]

\* new Response("ok", { headers }): the status defaults to 200
preflightResponse(endpoint) ==
    [endpoint |-> endpoint, status |-> 200, body |-> [text |-> "ok"]]

\* What one run of the webhook handler does to the table, and its response.
\* req.json is FALSE when req.json() throws (the body is not JSON).
webhookServe(tbl, req, fault) ==
    LET notification == req.body
        orderId == notification.order_id
        orderStatus == mapTransactionStatus(notification.transaction_status,
                                            notification.fraud_status)
        caught(message) ==
            [orders |-> tbl,
             resp |-> successResponse([success |-> FALSE,
                                       message |-> "Error: " \o message])]
        finish(out) ==
            IF out.threw THEN caught("store error")
            ELSE [orders |-> out.orders,
                  resp |-> successResponse(
                      [success |-> TRUE,
                       message |-> IF out.count > 0 THEN "Updated order(s)"
                                   ELSE "No orders updated",
                       orderId |-> orderId,
                       status |-> orderStatus,
                       updatedCount |-> out.count])]
    IN  IF req.method = "OPTIONS"
        THEN [orders |-> tbl, resp |-> preflightResponse("payment-webhook")]
        ELSE IF ~req.json THEN caught("Unexpected token")
        ELSE IF ~validateSignature(notification)
        THEN [orders |-> tbl,
              resp |-> successResponse([success |-> FALSE,
                                        message |-> "Invalid signature"])]
        ELSE IF ~isDapoerTransaction(orderId)
        THEN [orders |-> tbl,
              resp |-> successResponse([success |-> TRUE,
                                        message |-> "Non-DAPOER transaction ignored",
                                        orderId |-> orderId])]
        ELSE IF ~createAdminClientOk THEN caught("Missing Supabase configuration")
        ELSE IF isBulkTransaction(orderId)
        THEN finish(updateBulkOrders(tbl, orderId, orderStatus, fault))
        ELSE IF extractOrderUuid(orderId) = NULL
        THEN [orders |-> tbl,
              resp |-> successResponse([success |-> TRUE,
                                        message |-> "Invalid order ID format",
                                        orderId |-> orderId])]
        ELSE finish(updateSingleOrder(tbl, extractOrderUuid(orderId)[1],
                                      orderStatus, fault))


\* ------------------------------------------------------------------------
\* create-payment: constants and helpers
\* ------------------------------------------------------------------------

PAY_DAPOER_PREFIX == <<"DAPOER">>

QRIS_MAX_AMOUNT == 628000
\* QRIS_FEE_PERCENTAGE is 0.7, kept as the integer 7 (tenths of a percent)
QRIS_FEE_PERCENTAGE_TENTHS == 7
VA_FEE_FLAT == 4400

\* Math.ceil(a / b) for a >= 0, b > 0
Ceil(a, b) == (a + b - 1) \div b

generateTransactionId(orderIds, now) ==
    IF Len(orderIds) = 1
    THEN PAY_DAPOER_PREFIX \o <<"-">> \o <<orderIds[1]>>
    ELSE PAY_DAPOER_PREFIX \o <<"-", "BULK", "-">> \o <<ToString(now)>>
             \o <<"-">> \o <<ToString(Len(orderIds))>>

\* rounds the percentage fee to the nearest integer instead of up
calculateAdminFeeRound(baseAmount) ==
    IF baseAmount <= QRIS_MAX_AMOUNT
    THEN [fee |-> (baseAmount * QRIS_FEE_PERCENTAGE_TENTHS + 500) \div 1000,
          method |-> QRIS, feeType |-> "0.7%"]
    ELSE [fee |-> VA_FEE_FLAT, method |-> BANK_TRANSFER, feeType |-> "Rp 4.400"]

\* Math.ceil((baseAmount * 0.7) / 100): in IEEE doubles this equals the exact
\* ceiling of 7 * baseAmount / 1000 for every integer 0..628000
calculateAdminFee(baseAmount) ==
    IF baseAmount <= QRIS_MAX_AMOUNT
    THEN [fee |-> Ceil(baseAmount * QRIS_FEE_PERCENTAGE_TENTHS, 1000),
          method |-> QRIS, feeType |-> "0.7%"]
    ELSE [fee |-> VA_FEE_FLAT, method |-> BANK_TRANSFER, feeType |-> "Rp 4.400"]

RECURSIVE SumTotal(_)
SumTotal(rows) ==
    IF rows = <<>> THEN 0 ELSE Head(rows).total_amount + SumTotal(Tail(rows))

\* looks at the first order only
canReuseTokenFirstOnly(rows) ==
    Len(rows) > 0 /\ rows[1].snap_token # NULL /\ rows[1].status = PENDING

\* compares the status with a string no row has
canReuseTokenWrongStatus(rows) ==
    Len(rows) > 0 /\ rows[1].snap_token # NULL /\ rows[1].status = "PENDING"

\* rows: the loaded orders, a sequence of rows (each with its id)
canReuseToken(rows) ==
    IF Len(rows) = 0 THEN FALSE
    ELSE IF rows[1].snap_token = NULL \/ rows[1].status # PENDING THEN FALSE
    ELSE IF Len(rows) = 1 THEN TRUE
    ELSE \A i \in 1..Len(rows) :
            /\ rows[i].snap_token = rows[1].snap_token
            /\ rows[i].transaction_id = rows[1].transaction_id
            /\ rows[i].status = PENDING

\* computes the fee and the method from the policy even on reuse
buildPaymentInfoRecompute(rows, useExisting) ==
    LET baseAmount == SumTotal(rows)
        policy == calculateAdminFee(baseAmount)
    IN  [baseAmount |-> baseAmount, adminFee |-> policy.fee,
         totalAmount |-> baseAmount + policy.fee,
         paymentMethod |-> policy.method, feeType |-> policy.feeType]

buildPaymentInfo(rows, useExisting) ==
    LET baseAmount == SumTotal(rows)
        policy == calculateAdminFee(baseAmount)
    IN  IF useExisting /\ rows[1].admin_fee # NULL
        THEN LET adminFee == rows[1].admin_fee[1]
                 paymentMethod == IF rows[1].payment_method # NULL
                                  THEN rows[1].payment_method[1]
                                  ELSE policy.method
             IN  [baseAmount |-> baseAmount, adminFee |-> adminFee,
                  totalAmount |-> baseAmount + adminFee,
                  paymentMethod |-> paymentMethod,
                  feeType |-> IF paymentMethod = QRIS THEN "0.7%" ELSE "Rp 4.400"]
        ELSE [baseAmount |-> baseAmount, adminFee |-> policy.fee,
              totalAmount |-> baseAmount + policy.fee,
              paymentMethod |-> policy.method, feeType |-> policy.feeType]

Range(seq) == {seq[i] : i \in 1..Len(seq)}

\* the update ... .in("id", orderIds); on a store error nothing is written
\* and the error is only logged
\* leaves the orders alone that already have a token
updateOrdersWithPaymentKeepToken(tbl, orderIds, transactionId, snapToken, paymentUrl, adminFee, paymentMethod, fault) ==
    IF fault = "write" THEN tbl
    ELSE [o \in DOMAIN tbl |->
            IF o \in Range(orderIds) /\ tbl[o].snap_token = NULL
            THEN [tbl[o] EXCEPT !.snap_token = snapToken,
                                !.payment_url = paymentUrl,
                                !.transaction_id = transactionId,
                                !.admin_fee = Some(adminFee),
                                !.payment_method = Some(paymentMethod)]
            ELSE tbl[o]]

\* also writes status: pending with the payment fields
updateOrdersWithPaymentAndStatus(tbl, orderIds, transactionId, snapToken, paymentUrl, adminFee, paymentMethod, fault) ==
    IF fault = "write" THEN tbl
    ELSE [o \in DOMAIN tbl |->
            IF o \in Range(orderIds)
            THEN [tbl[o] EXCEPT !.snap_token = snapToken,
                                !.payment_url = paymentUrl,
                                !.transaction_id = transactionId,
                                !.admin_fee = Some(adminFee),
                                !.payment_method = Some(paymentMethod),
                                !.status = PENDING]
            ELSE tbl[o]]

updateOrdersWithPayment(tbl, orderIds, transactionId, snapToken, paymentUrl, adminFee, paymentMethod, fault) ==
    IF fault = "write" THEN tbl
    ELSE [o \in DOMAIN tbl |->
            IF o \in Range(orderIds)
            THEN [tbl[o] EXCEPT !.snap_token = snapToken,
                                !.payment_url = paymentUrl,
                                !.transaction_id = transactionId,
                                !.admin_fee = Some(adminFee),
                                !.payment_method = Some(paymentMethod)]
            ELSE tbl[o]]

\* surfaces the error of the update to the caller
updateOrdersWithPaymentThrowsOnError(fault) == fault = "write"

\* whether updateOrdersWithPayment throws: never, the error is only logged
updateOrdersWithPaymentThrows(fault) == FALSE

\* delivery dates and "today" are day numbers; Date.now() is in clock ticks
TicksPerDay == 1

Today(now) == now \div TicksPerDay

validateDeliveryDate(deliveryDate, now) ==
    IF deliveryDate = NULL THEN TRUE ELSE deliveryDate[1] >= Today(now)

\* "" when a client can be built, else the message of the error thrown
createSupabaseClientError(isGuest, authHeader) ==
    IF env.SUPABASE_URL = NULL THEN "SUPABASE_URL not configured"
    ELSE IF isGuest
    THEN IF env.SUPABASE_SERVICE_ROLE_KEY = NULL
         THEN "SUPABASE_SERVICE_ROLE_KEY not configured" ELSE ""
    ELSE IF authHeader = NULL
    THEN "Authorization header required for authenticated checkout"
    ELSE IF env.SUPABASE_ANON_KEY = NULL THEN "SUPABASE_ANON_KEY not configured"
    ELSE ""

\* the rows .in("id", orderIds) selects
fetchOrders(tbl, orderIds) == {tbl[o] : o \in DOMAIN tbl \cap Range(orderIds)}

\* every order in which the store may return these rows
RECURSIVE Orderings(_)
Orderings(rowSet) ==
    IF rowSet = {} THEN {<<>>}
    ELSE UNION {{<<r>> \o q : q \in Orderings(rowSet \ {r})} : r \in rowSet}

\* lets a guest pay the order of a customer
validateOrdersNoGuestCheck(rows, isGuest, now) ==
    IF \E i \in 1..Len(rows) : rows[i].status \in {PAID, CONFIRMED}
    THEN "Pesanan sudah dibayar"
    ELSE IF \E i \in 1..Len(rows) : ~validateDeliveryDate(rows[i].delivery_date, now)
    THEN "Tidak dapat membayar - tanggal penerimaan sudah lewat"
    ELSE ""

\* "" when the orders pass, else the message of the error thrown
validateOrders(rows, isGuest, now) ==
    IF \E i \in 1..Len(rows) : rows[i].status \in {PAID, CONFIRMED}
    THEN "Pesanan sudah dibayar"
    ELSE IF \E i \in 1..Len(rows) : ~validateDeliveryDate(rows[i].delivery_date, now)
    THEN "Tidak dapat membayar - tanggal penerimaan sudah lewat"
    ELSE IF isGuest /\ \E i \in 1..Len(rows) : rows[i].user_id # NULL
    THEN "Guest checkout can only be used for guest orders"
    ELSE ""

jsonResponse(data, status) ==
    [endpoint |-> "create-payment", status |-> status, body |-> data]

\* the body of a non-2xx answer of the gateway
GatewayErrorText == "rejected"

\* hides what the gateway answered
midtransApiErrorSwallowed(errorText) == "Payment failed"

\* the message of the error thrown when the gateway answers non-2xx
midtransApiError(errorText) == "Midtrans API error: " \o errorText

\* the part of the payload of createMidtransTransaction the gateway charges by
midtransPayload(transactionId, totalAmount, paymentMethod) ==
    [order_id |-> transactionId, gross_amount |-> totalAmount,
     enabled_payments |-> IF paymentMethod = QRIS THEN "other_qris"
                          ELSE "bank_transfer"]

\* the gateway after it was sent payload, and created a transaction from it
\* or not
GatewayCalled(gw, payload, created) ==
    [calls |-> gw.calls + 1,
     created |-> IF created THEN gw.created + 1 ELSE gw.created,
     sent |-> IF created THEN Append(gw.sent, payload) ELSE gw.sent]

\* the handles the gateway issues for its n-th transaction
SnapToken(n) == <<"snap", ToString(n)>>
RedirectUrl(n) == <<"https://app.midtrans.com/snap/", ToString(n)>>

\* What one run of the create-payment handler does to the table and to the
\* gateway, and its response.  rows: the loaded orders as the store returned
\* them; gatewayOk: the gateway answers 2xx; fault: the store fault met.
createServe(tbl, gw, now, req, rows, gatewayOk, fault) ==
    LET failed(message) ==
            [orders |-> tbl, gateway |-> gw,
             resp |-> jsonResponse([success |-> FALSE, error |-> message], 400)]
        clientError == createSupabaseClientError(req.isGuest, req.authHeader)
        invalid == validateOrders(rows, req.isGuest, now)
        paymentInfo == buildPaymentInfo(rows, FALSE)
        transactionId == generateTransactionId(req.orderIds, now)
        payload == midtransPayload(transactionId, paymentInfo.totalAmount,
                                   paymentInfo.paymentMethod)
        token == SnapToken(gw.created + 1)
        redirectUrl == RedirectUrl(gw.created + 1)
    IN  IF req.method = "OPTIONS"
        THEN [orders |-> tbl, gateway |-> gw,
              resp |-> preflightResponse("create-payment")]
        ELSE IF ~req.json THEN failed("Unexpected token")
        ELSE IF Len(req.orderIds) = 0 THEN failed("Order ID is required")
        ELSE IF clientError # "" THEN failed(clientError)
        ELSE IF fault = "read" \/ Len(rows) = 0 THEN failed("Orders not found")
        ELSE IF invalid # "" THEN failed(invalid)
        ELSE IF ~req.forceNewToken /\ canReuseToken(rows)
        THEN [orders |-> tbl, gateway |-> gw,
              resp |-> jsonResponse(
                  [success |-> TRUE,
                   snapToken |-> rows[1].snap_token,
                   redirectUrl |-> rows[1].payment_url,
                   orderIds |-> req.orderIds,
                   reused |-> TRUE,
                   paymentInfo |-> buildPaymentInfo(rows, TRUE)], 200)]
        ELSE IF env.MIDTRANS_SERVER_KEY = NULL
        THEN failed("MIDTRANS_SERVER_KEY not configured")
        ELSE IF ~gatewayOk
        THEN [orders |-> tbl, gateway |-> GatewayCalled(gw, payload, FALSE),
              resp |-> jsonResponse([success |-> FALSE,
                                     error |-> midtransApiError(GatewayErrorText)],
                                    400)]
        ELSE IF updateOrdersWithPaymentThrows(fault)
        THEN [orders |-> tbl, gateway |-> GatewayCalled(gw, payload, TRUE),
              resp |-> jsonResponse([success |-> FALSE,
                                     error |-> "store error"], 400)]
        ELSE [orders |-> updateOrdersWithPayment(tbl, req.orderIds, transactionId,
                             token, redirectUrl, paymentInfo.adminFee,
                             paymentInfo.paymentMethod, fault),
              gateway |-> GatewayCalled(gw, payload, TRUE),
              resp |-> jsonResponse(
                  [success |-> TRUE,
                   snapToken |-> token,
                   redirectUrl |-> redirectUrl,
                   orderIds |-> req.orderIds,
                   reused |-> FALSE,
                   paymentInfo |-> paymentInfo], 200)]

\* ------------------------------------------------------------------------
\* The store and the environment
\* ------------------------------------------------------------------------

\* the row the checkout flow inserts (GuestCartPage: status pending, no
\* payment fields)
NewOrder(id, userId, totalAmount, deliveryDate) ==
    [id |-> id, user_id |-> userId, status |-> PENDING,
     total_amount |-> totalAmount, admin_fee |-> NULL, payment_method |-> NULL,
     delivery_date |-> deliveryDate, snap_token |-> NULL, payment_url |-> NULL,
     transaction_id |-> NULL]

\* three guest orders, each below the QRIS threshold, o1 + o2 above it
FreshOrders ==
    [o \in Uuids |->
        NewOrder(o, NULL,
                 CASE o = "o1" -> 500000 [] o = "o2" -> 200000 [] OTHER -> 28500,
                 Some(Today(0)))]

Restrict(tbl, ids) == [o \in ids |-> tbl[o]]

\* the rows of orderIds, in the order of the list
RowsOf(tbl, orderIds) == [i \in 1..Len(orderIds) |-> tbl[orderIds[i]]]

\* the table after a persisted create-payment for orderIds at time now, as
\* the n-th transaction of the gateway
Charged(tbl, orderIds, now, n) ==
    LET paymentInfo == buildPaymentInfo(RowsOf(tbl, orderIds), FALSE)
    IN  updateOrdersWithPayment(tbl, orderIds, generateTransactionId(orderIds, now),
                                SnapToken(n), RedirectUrl(n), paymentInfo.adminFee,
                                paymentInfo.paymentMethod, "none")

SERVER_KEY == <<"SB-Mid-server-key">>

FullEnv ==
    [MIDTRANS_SERVER_KEY |-> SERVER_KEY,
     SUPABASE_URL |-> <<"https://project.supabase.co">>,
     SUPABASE_SERVICE_ROLE_KEY |-> <<"service-role">>,
     SUPABASE_ANON_KEY |-> <<"anon">>]

Envs ==
    {FullEnv,
     [FullEnv EXCEPT !.MIDTRANS_SERVER_KEY = NULL],
     [FullEnv EXCEPT !.SUPABASE_SERVICE_ROLE_KEY = NULL]}

NoResponse == [endpoint |-> "none", status |-> 0, body |-> [text |-> ""]]

NoGateway == [calls |-> 0, created |-> 0, sent |-> <<>>]

\* the gateway after the call of a persisted create-payment for orderIds
ChargedGateway(gw, tbl, orderIds, now) ==
    LET paymentInfo == buildPaymentInfo(RowsOf(tbl, orderIds), FALSE)
    IN  GatewayCalled(gw, midtransPayload(generateTransactionId(orderIds, now),
                                          paymentInfo.totalAmount,
                                          paymentInfo.paymentMethod), TRUE)

\* ------------------------------------------------------------------------
\* Requests
\* ------------------------------------------------------------------------

SingleId(o) == <<"DAPOER", "-", o>>
BulkId(now, n) == <<"DAPOER", "-", "BULK", "-", ToString(now), "-", ToString(n)>>
ForeignId == <<"KIDEATS", "-", "o1">>
MalformedId == <<"DAPOER", "-", "o1", "-", "retry">>

\* (transaction_status, fraud_status) pairs the gateway sends
StatusInputs ==
    {<<"settlement", ABSENT>>, <<"capture", "accept">>, <<"pending", ABSENT>>,
     <<"expire", ABSENT>>, <<"cancel", ABSENT>>}

\* keys a sender may sign with: the server key, no key, some other key
SigningKeys == {SERVER_KEY, <<>>, <<"SB-Mid-server-other">>}

Notification(orderId, key, st) ==
    [order_id |-> orderId, status_code |-> <<"200">>,
     gross_amount |-> <<"503500.00">>,
     signature_key |-> calculateSignature(orderId, <<"200">>, <<"503500.00">>, key),
     transaction_status |-> st[1], fraud_status |-> st[2]]

NoNotification == Notification(<<>>, <<>>, <<ABSENT, ABSENT>>)

HookRequestsFor(orderIdSet) ==
    {[method |-> "POST", json |-> TRUE, body |-> Notification(id, k, st)] :
        id \in orderIdSet, k \in SigningKeys, st \in StatusInputs}
    \cup {[method |-> "POST", json |-> FALSE, body |-> NoNotification],
          [method |-> "OPTIONS", json |-> FALSE, body |-> NoNotification]}

NoHist == [op |-> "none", times |-> 0]

\* no handler run is in flight
NoJobs == <<>>

\* ------------------------------------------------------------------------
\* Actions
\* ------------------------------------------------------------------------

\* one run of the payment-webhook handler
PaymentWebhook(req, fault) ==
    LET r == webhookServe(orders, req, fault)
    IN  /\ orders' = r.orders
        /\ resp' = r.resp
        /\ UNCHANGED <<env, clock, gateway, arg, res, jobs>>

\* an operator marks an order confirmed (outside the two functions)
ExternalConfirm(o) ==
    /\ o \in DOMAIN orders
    /\ orders[o].status \in {PENDING, PAID}
    /\ orders' = [orders EXCEPT ![o].status = CONFIRMED]
    /\ resp' = NoResponse
    /\ UNCHANGED <<env, clock, gateway, arg, res, jobs>>

\* ------------------------------------------------------------------------
\* Specification of the webhook over a table of three orders
\* ------------------------------------------------------------------------

\* stores create-payment leaves behind: one bulk charge over all three
\* orders, or a bulk charge over o1 and o2 and a single charge for o3
HookStores ==
    {[orders |-> Charged(FreshOrders, <<"o1", "o2", "o3">>, 1, 1),
      gateway |-> ChargedGateway(NoGateway, FreshOrders, <<"o1", "o2", "o3">>, 1)],
     [orders |-> Charged(Charged(FreshOrders, <<"o1", "o2">>, 1, 1), <<"o3">>, 1, 2),
      gateway |-> ChargedGateway(
                      ChargedGateway(NoGateway, FreshOrders, <<"o1", "o2">>, 1),
                      FreshOrders, <<"o3">>, 1)]}

HookOrderIds ==
    {SingleId("o1"), SingleId("o3"), BulkId(1, 3), BulkId(1, 2), ForeignId,
     MalformedId}

InitHook ==
    /\ \E st \in HookStores : orders = st.orders /\ gateway = st.gateway
    /\ env \in Envs
    /\ clock = 1
    /\ resp = NoResponse
    /\ hist = NoHist
    /\ arg = NULL
    /\ res = NULL
    /\ jobs = NoJobs

HookDeliver ==
    \E req \in HookRequestsFor(HookOrderIds), fault \in Faults :
        PaymentWebhook(req, fault) /\ UNCHANGED hist

HookConfirm == \E o \in Uuids : ExternalConfirm(o) /\ UNCHANGED hist

NextHook == HookDeliver \/ HookConfirm

SpecHook == InitHook /\ [][NextHook]_vars

\* ------------------------------------------------------------------------
\* Properties of the webhook (SpecHook)
\* ------------------------------------------------------------------------

FromWebhook(r) == r.endpoint = "payment-webhook"

\* the response of a notification that passed the signature, prefix and id
\* checks and whose store queries did not fail: only these carry updatedCount
Applied(r) == FromWebhook(r) /\ "updatedCount" \in DOMAIN r.body

\* C1: a processed notification whose mapped status is not paid leaves the
\* status of every order that is paid or confirmed as it was.
C1_NoDowngrade ==
    [][(Applied(resp') /\ resp'.body.status # PAID)
        => \A o \in DOMAIN orders :
              orders[o].status \in {PAID, CONFIRMED}
                  => orders'[o].status = orders[o].status]_vars

\* C3: every response of the webhook entry point has HTTP status 200.
C3_WebhookAlways200 == FromWebhook(resp) => resp.status = 200

C3_Witness_StoreError ==
    /\ FromWebhook(resp)
    /\ "success" \in DOMAIN resp.body
    /\ ~resp.body.success
    /\ resp.body.message = "Error: store error"

\* the no-downgrade rule as the specification states it
SpecSkips(rowStatus, status) == rowStatus \in {PAID, CONFIRMED} /\ status # PAID

\* C6: a processed bulk notification sets the mapped status on exactly the
\* orders that carry its transaction id and are not skipped by the
\* no-downgrade rule, leaves every other order as it was, and reports the
\* number of orders it set.
C6_BulkFanOut ==
    [][(Applied(resp') /\ isBulkTransaction(resp'.body.orderId))
        => LET id == resp'.body.orderId
               st == resp'.body.status
               targets == {o \in DOMAIN orders :
                              /\ orders[o].transaction_id = id
                              /\ ~SpecSkips(orders[o].status, st)}
           IN  /\ \A o \in targets : orders'[o] = [orders[o] EXCEPT !.status = st]
               /\ \A o \in DOMAIN orders \ targets : orders'[o] = orders[o]
               /\ resp'.body.updatedCount = Cardinality(targets)]_vars

\* C7 as stated: once an order is paid, failed or expired, no webhook run
\* changes its status.
C7_FinalisedOnce ==
    [][FromWebhook(resp')
        => \A o \in DOMAIN orders :
              orders[o].status \in {PAID, FAILED, EXPIRED}
                  => orders'[o].status = orders[o].status]_vars

\* C7 amended: once an order is paid, no webhook run changes its status.
C7_PaidIsFinal ==
    [][FromWebhook(resp')
        => \A o \in DOMAIN orders :
              orders[o].status = PAID => orders'[o].status = PAID]_vars

\* a non-paid notification for the paid order o3 was processed and skipped
C7_Witness_PaidSkipped ==
    /\ Applied(resp)
    /\ resp.body.orderId = SingleId("o3")
    /\ resp.body.status = EXPIRED
    /\ resp.body.updatedCount = 0
    /\ orders["o3"].status = PAID

\* ------------------------------------------------------------------------
\* Specification of repeated deliveries, over a table of two orders that
\* share one bulk charge; hist records the request delivered last, how many
\* times in a row it was delivered, the table before its first delivery and
\* the store fault its last delivery met
\* ------------------------------------------------------------------------

MaxDeliveries == 3

DeliverOrderIds ==
    {SingleId("o1"), SingleId("o3"), BulkId(1, 2), BulkId(1, 3), ForeignId,
     MalformedId}

InitDeliver ==
    /\ orders = Charged(Restrict(FreshOrders, {"o1", "o2"}), <<"o1", "o2">>, 1, 1)
    /\ gateway = ChargedGateway(NoGateway, FreshOrders, <<"o1", "o2">>, 1)
    /\ env \in Envs
    /\ clock = 1
    /\ resp = NoResponse
    /\ hist = NoHist
    /\ arg = NULL
    /\ res = NULL
    /\ jobs = NoJobs

\* the gateway sends a notification
Deliver ==
    \E req \in HookRequestsFor(DeliverOrderIds), fault \in Faults :
        /\ PaymentWebhook(req, fault)
        /\ hist' = [op |-> "webhook", times |-> 1, req |-> req, start |-> orders,
                    fault |-> fault]

\* the gateway sends the notification it sent last once more
Redeliver ==
    \E fault \in Faults :
        /\ hist.op = "webhook"
        /\ hist.times < MaxDeliveries
        /\ PaymentWebhook(hist.req, fault)
        /\ hist' = [hist EXCEPT !.times = @ + 1, !.fault = fault]

DeliverConfirm == \E o \in Uuids : ExternalConfirm(o) /\ hist' = NoHist

NextDeliver == Deliver \/ Redeliver \/ DeliverConfirm

SpecDeliver == InitDeliver /\ [][NextDeliver]_vars

\* the signature sent is not the SHA-512 of the signed fields and the
\* configured server key, or no server key is configured
BadSignature(n) ==
    \/ env.MIDTRANS_SERVER_KEY = NULL
    \/ n.signature_key # <<"sha512", n.order_id \o n.status_code \o n.gross_amount
                                         \o env.MIDTRANS_SERVER_KEY>>

IsNotification(h) == h.op = "webhook" /\ h.req.method = "POST" /\ h.req.json

\* C2: a notification with a bad signature, or one that arrives while no
\* server key is configured, changes no field of any order and is answered
\* with HTTP 200.
C2_SignatureRejection ==
    [][(IsNotification(hist') /\ BadSignature(hist'.req.body))
        => orders' = orders /\ resp'.status = 200]_vars

\* a notification for the stored bulk transaction, signed with no key, was
\* rejected while no server key was configured
C2_Witness_Rejected ==
    /\ IsNotification(hist)
    /\ env.MIDTRANS_SERVER_KEY = NULL
    /\ hist.req.body.order_id = BulkId(1, 2)
    /\ hist.req.body.signature_key
          = calculateSignature(BulkId(1, 2), <<"200">>, <<"503500.00">>, <<>>)
    /\ hist.req.body.transaction_status = "settlement"
    /\ resp = successResponse([success |-> FALSE, message |-> "Invalid signature"])

StatusOf(tbl) == [o \in DOMAIN tbl |-> tbl[o].status]

\* the statuses one delivery of req can leave behind when it starts from tbl
OnceFrom(tbl, req) == {StatusOf(webhookServe(tbl, req, f).orders) : f \in Faults}

\* C5: after any number of deliveries in sequence of one validly signed
\* notification, the status of every order is one that a single delivery
\* of it to the starting table leaves behind.
C5_ReplayIdempotent ==
    (IsNotification(hist) /\ ~BadSignature(hist.req.body))
        => StatusOf(orders) \in OnceFrom(hist.start, hist.req)

\* the expire notification of the bulk transaction was delivered a third
\* time, after it had moved both orders to expired
C5_Witness_Replayed ==
    /\ IsNotification(hist)
    /\ hist.times = 3
    /\ hist.req.body.order_id = BulkId(1, 2)
    /\ Applied(resp)
    /\ resp.body.status = EXPIRED
    /\ resp.body.updatedCount = 2
    /\ StatusOf(orders) = [o \in {"o1", "o2"} |-> EXPIRED]

\* the order_id lacks the reserved prefix, or has it, is no bulk id and is
\* not the prefix followed by a UUID
BadOrderId(id) ==
    \/ ~StartsWith(id, <<"DAPOER", "-">>)
    \/ /\ ~StartsWith(id, <<"DAPOER", "-", "BULK", "-">>)
       /\ ~(Len(id) = 3 /\ id[3] \in Uuids)

\* C15: a notification with a bad signature, a foreign order_id or an
\* order_id that names no UUID is answered with HTTP 200 and success: false
\* and changes no order.
C15_ValidationFailure ==
    [][(/\ IsNotification(hist')
        /\ BadSignature(hist'.req.body) \/ BadOrderId(hist'.req.body.order_id))
        => /\ resp'.status = 200
           /\ resp'.body.success = FALSE
           /\ orders' = orders]_vars

\* a validly signed notification for another system's transaction was
\* answered with success: true
C15_Witness_ForeignAccepted ==
    /\ IsNotification(hist)
    /\ ~BadSignature(hist.req.body)
    /\ hist.req.body.order_id = ForeignId
    /\ resp = successResponse([success |-> TRUE,
                               message |-> "Non-DAPOER transaction ignored",
                               orderId |-> ForeignId])

\* the transaction id names no stored order: a bulk id that no order
\* carries, or the prefix followed by a UUID that is no primary key
NoMatch(tbl, id) ==
    IF StartsWith(id, <<"DAPOER", "-", "BULK", "-">>)
    THEN \A o \in DOMAIN tbl : tbl[o].transaction_id # id
    ELSE \E u \in Uuids \ DOMAIN tbl : id = <<"DAPOER", "-", u>>

\* C16: a validly signed notification whose id names no stored order, looked
\* up in a reachable store, is answered with HTTP 200, success: true and
\* updatedCount 0 and changes no order.
C16_NoMatch ==
    [][(/\ IsNotification(hist')
        /\ ~BadSignature(hist'.req.body)
        /\ NoMatch(orders, hist'.req.body.order_id)
        /\ createAdminClientOk
        /\ hist'.fault # "read")
        => /\ resp'.status = 200
           /\ resp'.body.success
           /\ resp'.body.updatedCount = 0
           /\ orders' = orders]_vars

\* the settlement of a single charge for o3, which is no row of the table
C16_Witness_UnknownOrder ==
    /\ IsNotification(hist)
    /\ ~BadSignature(hist.req.body)
    /\ hist.req.body.order_id = SingleId("o3")
    /\ hist.req.body.transaction_status = "settlement"
    /\ hist.fault = "none"
    /\ Applied(resp)
    /\ resp.body.updatedCount = 0
    /\ resp.body.message = "No orders updated"

\* ------------------------------------------------------------------------
\* Specification of the whole subsystem: create-payment, the webhook, the
\* clock and the operator, over two fresh orders; hist records the
\* create-payment request handled last, and whether it was handled once (1)
\* or at least twice in a row (2)
\* ------------------------------------------------------------------------

MaxGatewayCalls == 2
MaxClock == 1

BEARER == <<"Bearer user-jwt">>

\* orderIds of a request: one order, a bulk, nothing, an id that is no row
PayOrderIdLists ==
    {<<"o1">>, <<"o2">>, <<"o1", "o2">>, <<>>, <<"o9">>}

\* callers: a guest, a signed-in customer
PayCallers == {<<TRUE, NULL>>, <<FALSE, BEARER>>}

PayRequest(m, json, ids, who, force) ==
    [method |-> m, json |-> json, orderIds |-> ids, isGuest |-> who[1],
     authHeader |-> who[2], forceNewToken |-> force]

\* well-formed requests, a request of a customer who sent no Authorization
\* header, a body that is not JSON, a preflight
PayRequests ==
    {PayRequest("POST", TRUE, ids, who, force) :
        ids \in PayOrderIdLists, who \in PayCallers, force \in BOOLEAN}
    \cup {PayRequest("POST", TRUE, <<"o1">>, <<FALSE, NULL>>, FALSE),
          PayRequest("POST", FALSE, <<>>, <<FALSE, NULL>>, FALSE),
          PayRequest("OPTIONS", FALSE, <<>>, <<FALSE, NULL>>, FALSE)}

\* the requests of a guest, and those of a customer that name o1
GuestPayRequests ==
    {req \in PayRequests : req.isGuest \/ req.orderIds \in {<<"o1">>, <<>>}}

\* what the collaborators do during one call: (gateway answers 2xx, store fault)
PayOutcomes ==
    {<<TRUE, "none">>, <<TRUE, "read">>, <<TRUE, "write">>, <<FALSE, "none">>}

\* one run of the create-payment handler
CreatePayment(req, rows, gatewayOk, fault) ==
    LET r == createServe(orders, gateway, clock, req, rows, gatewayOk, fault)
    IN  /\ gateway.calls < MaxGatewayCalls
        /\ orders' = r.orders
        /\ gateway' = r.gateway
        /\ resp' = r.resp
        /\ UNCHANGED <<env, clock, arg, res, jobs>>

\* time passes
Tick ==
    /\ clock < MaxClock
    /\ clock' = clock + 1
    /\ resp' = NoResponse
    /\ UNCHANGED <<orders, env, gateway, arg, res, jobs>>

\* the transaction ids a gateway notification can carry: those stored on
\* the orders and those of single-order charges
KnownTransactionIds ==
    ({orders[o].transaction_id : o \in DOMAIN orders} \ {NULL})
        \cup {SingleId(o) : o \in DOMAIN orders}

\* correctly signed notifications of the gateway
GatewayNotifications ==
    {[method |-> "POST", json |-> TRUE, body |-> Notification(id, SERVER_KEY, st)] :
        id \in KnownTransactionIds,
        st \in {<<"settlement", ABSENT>>, <<"expire", ABSENT>>, <<"pending", ABSENT>>}}

Init ==
    /\ orders = Restrict(FreshOrders, {"o1", "o2"})
    /\ gateway = NoGateway
    /\ env \in Envs
    /\ clock = 0
    /\ resp = NoResponse
    /\ hist = NoHist
    /\ arg = NULL
    /\ res = NULL
    /\ jobs = NoJobs

Pay ==
    \E req \in GuestPayRequests, out \in PayOutcomes :
        \E rows \in Orderings(fetchOrders(orders, req.orderIds)) :
            /\ CreatePayment(req, rows, out[1], out[2])
            /\ hist' = [op |-> "create", req |-> req,
                        times |-> IF hist.op = "create" /\ hist.req = req
                                  THEN 2 ELSE 1]

Notify ==
    \E req \in GatewayNotifications :
        PaymentWebhook(req, "none") /\ hist' = NoHist

Confirm == \E o \in Uuids : ExternalConfirm(o) /\ hist' = NoHist

Advance == Tick /\ hist' = NoHist

Next == Pay \/ Notify \/ Confirm \/ Advance

Spec == Init /\ [][Next]_vars

\* the same request was handled twice in a row: a POST for one pending
\* order without forceNewToken
SameSingleRequestAgain ==
    /\ hist.op = "create"
    /\ hist'.op = "create"
    /\ hist'.req = hist.req
    /\ hist.req.method = "POST" /\ hist.req.json
    /\ Len(hist.req.orderIds) = 1
    /\ ~hist.req.forceNewToken
    /\ hist.req.orderIds[1] \in DOMAIN orders
    /\ orders[hist.req.orderIds[1]].status = PENDING

IssuedNewToken(r) ==
    r.endpoint = "create-payment" /\ r.status = 200 /\ ~r.body.reused

SentIds == [i \in 1..Len(gateway.sent) |-> gateway.sent[i].order_id]

\* C11: no call that creates a gateway transaction carries a transaction id
\* that an earlier such call carried.
C11_TransactionIdsUnique ==
    \A i, j \in 1..Len(SentIds) : i < j => SentIds[i] # SentIds[j]

\* a forceNewToken retry for o1 created a second gateway transaction under
\* the id of the first
C11_Witness_ForcedSameId ==
    /\ hist.op = "create"
    /\ hist.req.orderIds = <<"o1">>
    /\ hist.req.forceNewToken
    /\ resp.status = 200
    /\ resp.body.snapToken = SnapToken(2)
    /\ gateway.created = 2
    /\ SentIds = <<SingleId("o1"), SingleId("o1")>>

\* ------------------------------------------------------------------------
\* Specification of charges that overlap: create-payment and the webhook
\* over three fresh orders, for a guest who pays orders one by one or
\* several at a time
\* ------------------------------------------------------------------------

SharedOrderIdLists ==
    {<<"o1">>, <<"o1", "o2">>, <<"o2", "o3">>, <<"o1", "o2", "o3">>}

SharedRequests ==
    {PayRequest("POST", TRUE, ids, <<TRUE, NULL>>, force) :
        ids \in SharedOrderIdLists, force \in BOOLEAN}

InitShared ==
    /\ orders = FreshOrders
    /\ gateway = NoGateway
    /\ env = FullEnv
    /\ clock = 0
    /\ resp = NoResponse
    /\ hist = NoHist
    /\ arg = NULL
    /\ res = NULL
    /\ jobs = NoJobs

SharedPay ==
    \E req \in SharedRequests, out \in PayOutcomes :
        \E rows \in Orderings(fetchOrders(orders, req.orderIds)) :
            /\ CreatePayment(req, rows, out[1], out[2])
            /\ UNCHANGED hist

SharedNotify ==
    \E req \in GatewayNotifications :
        PaymentWebhook(req, "none") /\ UNCHANGED hist

SharedTick == Tick /\ UNCHANGED hist

NextShared == SharedPay \/ SharedNotify \/ SharedTick

SpecShared == InitShared /\ [][NextShared]_vars

\* C12: any two orders with the same non-null transaction_id have the same
\* snap_token, payment_method and admin_fee.
C12_SharedTransaction ==
    \A a, b \in DOMAIN orders :
        (orders[a].transaction_id # NULL
            /\ orders[a].transaction_id = orders[b].transaction_id)
        => /\ orders[a].snap_token = orders[b].snap_token
           /\ orders[a].payment_method = orders[b].payment_method
           /\ orders[a].admin_fee = orders[b].admin_fee

\* two bulk charges of two orders each, made at the same clock reading,
\* left o2 and o3 under one transaction id with two tokens
C12_Witness_SplitTransaction ==
    /\ orders["o2"].transaction_id = BulkId(0, 2)
    /\ orders["o3"].transaction_id = BulkId(0, 2)
    /\ orders["o2"].snap_token = SnapToken(2)
    /\ orders["o3"].snap_token = SnapToken(1)

\* the response of a create-payment call that reused a token
Reused(r) ==
    r.endpoint = "create-payment" /\ r.status = 200
        /\ "reused" \in DOMAIN r.body /\ r.body.reused

\* C17: a call answered with reused: true calls the gateway not at all,
\* writes no order, and returns the snap_token, the payment_url, the
\* admin_fee and the payment_method stored on the first order it loaded.
C17_ReuseOutput ==
    [][Reused(resp')
        => /\ gateway' = gateway
           /\ orders' = orders
           /\ \E o \in DOMAIN orders \cap Range(resp'.body.orderIds) :
                 /\ resp'.body.snapToken = orders[o].snap_token
                 /\ resp'.body.redirectUrl = orders[o].payment_url
                 /\ Some(resp'.body.paymentInfo.adminFee) = orders[o].admin_fee
                 /\ Some(resp'.body.paymentInfo.paymentMethod)
                       = orders[o].payment_method]_vars

\* o1 was charged together with o2 (700000: bank transfer, fee 4400) and
\* then paid alone with the token of that charge
C17_Witness_StoredFee ==
    /\ Reused(resp)
    /\ resp.body.orderIds = <<"o1">>
    /\ resp.body.snapToken = orders["o1"].snap_token
    /\ orders["o1"].transaction_id = BulkId(0, 2)
    /\ resp.body.paymentInfo.baseAmount = 500000
    /\ resp.body.paymentInfo.adminFee = 4400
    /\ resp.body.paymentInfo.paymentMethod = BANK_TRANSFER

\* the response of a create-payment call that created a gateway transaction
\* and whose store update took effect on every order of the request
Persisted(r, tbl) ==
    /\ r.endpoint = "create-payment" /\ r.status = 200
    /\ "reused" \in DOMAIN r.body /\ ~r.body.reused
    /\ \A o \in Range(r.body.orderIds) : tbl[o].snap_token = r.body.snapToken

\* the transaction id of the gateway transaction created last
IssuedId(gw) == gw.sent[Len(gw.sent)].order_id

\* what the webhook does with a validly signed settlement for id
Settled(tbl, id) ==
    webhookServe(tbl, [method |-> "POST", json |-> TRUE,
                       body |-> Notification(id, SERVER_KEY, <<"settlement", ABSENT>>)],
                 "none")

\* C18: right after a create-payment call created and stored a transaction
\* for the orders S, a validly signed notification with the issued
\* transaction id is accepted and updates exactly the orders S.
C18_RoutingRoundTrip ==
    Persisted(resp, orders)
    => LET S == Range(resp.body.orderIds)
           r == Settled(orders, IssuedId(gateway))
       IN  /\ r.resp.body.success
           /\ "updatedCount" \in DOMAIN r.resp.body
           /\ r.resp.body.updatedCount = Cardinality(S)
           /\ \A o \in DOMAIN orders :
                 IF o \in S THEN r.orders[o].status = PAID
                 ELSE r.orders[o] = orders[o]

\* o1 and o2 were charged together, then o2 and o3 at the same clock
\* reading: the second transaction id is the first one again, and its
\* settlement also marks o1 paid
C18_Witness_StaleOrderSettled ==
    /\ Persisted(resp, orders)
    /\ resp.body.orderIds = <<"o2", "o3">>
    /\ IssuedId(gateway) = BulkId(0, 2)
    /\ orders["o1"].transaction_id = BulkId(0, 2)
    /\ orders["o1"].status = PENDING
    /\ Settled(orders, BulkId(0, 2)).resp.body.updatedCount = 3
    /\ Settled(orders, BulkId(0, 2)).orders["o1"].status = PAID

\* an order's share of a charge: its stored admin_fee plus its
\* total_amount, which stands for the sum of its item subtotals
Share(row) == row.admin_fee[1] + row.total_amount

RECURSIVE ShareSum(_, _)
ShareSum(tbl, orderIds) ==
    IF orderIds = <<>> THEN 0
    ELSE Share(tbl[Head(orderIds)]) + ShareSum(tbl, Tail(orderIds))

\* C19: right after a create-payment call created and stored a transaction,
\* the shares (stored admin_fee plus item subtotals) of the orders it covers
\* add up to the gross_amount sent to the gateway.
C19_ChargeAccounting ==
    Persisted(resp, orders)
    => ShareSum(orders, resp.body.orderIds)
         = gateway.sent[Len(gateway.sent)].gross_amount

\* o1 (500000) and o2 (200000) were charged together: 704400 went to the
\* gateway, and each order stores the whole fee of 4400
C19_Witness_FeeStoredTwice ==
    /\ Persisted(resp, orders)
    /\ resp.body.orderIds = <<"o1", "o2">>
    /\ gateway.sent[Len(gateway.sent)].gross_amount = 704400
    /\ orders["o1"].admin_fee = Some(4400)
    /\ orders["o2"].admin_fee = Some(4400)
    /\ ShareSum(orders, resp.body.orderIds) = 708800

\* the gross_amount of the gateway transaction that token was issued for
GrossOf(gw, token) ==
    LET n == CHOOSE k \in 1..Len(gw.sent) : SnapToken(k) = token
    IN  gw.sent[n].gross_amount

\* C26: when create-payment answers reused: true, paymentInfo.totalAmount is
\* the gross amount of the gateway transaction the returned token was
\* issued for.
C26_ReusedAmount ==
    Reused(resp)
    => resp.body.paymentInfo.totalAmount = GrossOf(gateway, resp.body.snapToken)

\* o1 and o2 were charged together for 704400; o1 was then requested alone
\* and got the token of that charge with a quoted total of 504400
C26_Witness_SubsetQuote ==
    /\ Reused(resp)
    /\ resp.body.orderIds = <<"o1">>
    /\ resp.body.snapToken = SnapToken(1)
    /\ orders["o2"].snap_token = SnapToken(1)
    /\ GrossOf(gateway, SnapToken(1)) = 704400
    /\ resp.body.paymentInfo.totalAmount = 504400

\* the gateway created a transaction under id
Created(gw, id) == \E n \in 1..Len(gw.sent) : gw.sent[n].order_id = id

\* C24: a webhook run for a transaction the gateway created changes the
\* status only of orders whose stored transaction_id is the order_id of the
\* notification.
C24_NoStaleEffect ==
    [][(/\ resp'.endpoint = "payment-webhook"
        /\ "orderId" \in DOMAIN resp'.body
        /\ Created(gateway, resp'.body.orderId))
        => \A o \in DOMAIN orders :
              orders'[o].status # orders[o].status
              => /\ "orderId" \in DOMAIN resp'.body
                 /\ orders[o].transaction_id = resp'.body.orderId]_vars

\* o1 was charged alone and then together with o2; the settlement of the
\* first, single-order transaction marked o1 paid although o1 stores the
\* bulk transaction id
C24_Witness_StaleSingleSettled ==
    /\ resp.endpoint = "payment-webhook"
    /\ "orderId" \in DOMAIN resp.body
    /\ resp.body.orderId = SingleId("o1")
    /\ resp.body.updatedCount = 1
    /\ orders["o1"].transaction_id = BulkId(0, 2)
    /\ orders["o1"].snap_token = SnapToken(2)
    /\ orders["o1"].status = PAID
    /\ orders["o2"].status = PENDING

\* the response of a create-payment call that created a gateway transaction
\* and whose store update failed: no order of the request has the token
Unpersisted(r, tbl) ==
    /\ r.endpoint = "create-payment" /\ r.status = 200
    /\ "reused" \in DOMAIN r.body /\ ~r.body.reused
    /\ \A o \in Range(r.body.orderIds) : tbl[o].snap_token # r.body.snapToken

\* C23: after a create-payment call created a gateway transaction and its
\* store update failed, a validly signed settlement for that transaction
\* moves every order of the request to paid.
C23_RepairByWebhook ==
    Unpersisted(resp, orders)
    => \A o \in Range(resp.body.orderIds) :
          Settled(orders, IssuedId(gateway)).orders[o].status = PAID

\* the bulk charge of o1 and o2 was created and not stored; its settlement
\* finds no order under the transaction id and updates none
C23_Witness_BulkNotRepaired ==
    /\ Unpersisted(resp, orders)
    /\ resp.body.orderIds = <<"o1", "o2">>
    /\ IssuedId(gateway) = BulkId(0, 2)
    /\ orders["o1"].transaction_id = NULL /\ orders["o2"].transaction_id = NULL
    /\ Settled(orders, BulkId(0, 2)).resp.body.updatedCount = 0
    /\ Settled(orders, BulkId(0, 2)).orders = orders

\* ------------------------------------------------------------------------
\* Specification of one create-payment call from any store: the order of a
\* guest and the order of a guest or of a customer, in any payable or
\* settled status, due today, due tomorrow or without a date, not charged
\* yet or charged before; hist records the request and what the
\* collaborators did
\* ------------------------------------------------------------------------

CUSTOMER == <<"u1">>

RuleStatuses == {PENDING, PAID, CONFIRMED, EXPIRED}

\* the two orders as the checkout flows inserted them
RuleFreshStores ==
    {[o \in {"o1", "o2"} |->
        NewOrder(o, who[o], IF o = "o1" THEN 500000 ELSE 200000, due[o])] :
        who \in {[o1 |-> NULL, o2 |-> NULL], [o1 |-> NULL, o2 |-> CUSTOMER]},
        due \in [{"o1", "o2"} -> {NULL, Some(0), Some(1)}]}

\* not charged, o1 charged alone, both charged together
RuleChargedStores ==
    UNION {{[orders |-> tbl, gateway |-> NoGateway],
            [orders |-> Charged(tbl, <<"o1">>, 0, 1),
             gateway |-> ChargedGateway(NoGateway, tbl, <<"o1">>, 0)],
            [orders |-> Charged(tbl, <<"o1", "o2">>, 0, 1),
             gateway |-> ChargedGateway(NoGateway, tbl, <<"o1", "o2">>, 0)]} :
           tbl \in RuleFreshStores}

\* the statuses later notifications and the operator gave the orders
RuleStores ==
    {[orders |-> [o \in {"o1", "o2"} |-> [st.orders[o] EXCEPT !.status = status[o]]],
      gateway |-> st.gateway] :
        st \in RuleChargedStores, status \in [{"o1", "o2"} -> RuleStatuses]}

InitRules ==
    /\ \E st \in RuleStores : orders = st.orders /\ gateway = st.gateway
    /\ env \in Envs
    /\ clock = 0
    /\ resp = NoResponse
    /\ hist = NoHist
    /\ arg = NULL
    /\ res = NULL
    /\ jobs = NoJobs

\* the requests of the model and a guest's request that names o1 and an
\* order the store does not have
RulePayRequests ==
    PayRequests
        \cup {PayRequest("POST", TRUE, <<"o1", "o9">>, <<TRUE, NULL>>, force) :
                 force \in BOOLEAN}

\* the one call observed
RulesPay ==
    \E req \in RulePayRequests, out \in PayOutcomes :
        \E rows \in Orderings(fetchOrders(orders, req.orderIds)) :
            /\ hist.op = "none"
            /\ CreatePayment(req, rows, out[1], out[2])
            /\ hist' = [op |-> "create", req |-> req, times |-> 1,
                        out |-> out]

RulesTick == hist.op = "none" /\ Tick /\ UNCHANGED hist

NextRules == RulesPay \/ RulesTick

SpecRules == InitRules /\ [][NextRules]_vars

\* the call recorded in h loaded the orders its request names
Loaded(h) ==
    /\ h.req.method = "POST" /\ h.req.json
    /\ Len(h.req.orderIds) > 0
    /\ createSupabaseClientError(h.req.isGuest, h.req.authHeader) = ""
    /\ h.out[2] # "read"

\* a business rule forbids paying the orders that req names in tbl
RuleViolated(tbl, req, now) ==
    \E o \in DOMAIN tbl \cap Range(req.orderIds) :
        \/ tbl[o].status \in {PAID, CONFIRMED}
        \/ tbl[o].delivery_date # NULL /\ tbl[o].delivery_date[1] < Today(now)
        \/ req.isGuest /\ tbl[o].user_id # NULL

\* C13: a call that loaded an order which is paid or confirmed, or due
\* before today, or owned by a customer while the call is a guest's, is
\* answered with HTTP 400 and success: false, carries no token, calls the
\* gateway not at all and changes no order.
C13_RuleRejection ==
    [][(hist'.op = "create" /\ Loaded(hist') /\ RuleViolated(orders, hist'.req, clock))
        => /\ resp'.status = 400
           /\ resp'.body.success = FALSE
           /\ "snapToken" \notin DOMAIN resp'.body
           /\ gateway' = gateway
           /\ orders' = orders]_vars

\* a guest asked to pay o1 and the customer's pending order o2
C13_Witness_GuestScope ==
    /\ hist.op = "create"
    /\ hist.req.isGuest
    /\ hist.req.orderIds = <<"o1", "o2">>
    /\ orders["o1"].status = PENDING /\ orders["o2"].status = PENDING
    /\ orders["o2"].user_id = CUSTOMER
    /\ resp = jsonResponse([success |-> FALSE,
                            error |-> "Guest checkout can only be used for guest orders"],
                           400)

\* C14: when the gateway created the transaction and the store update of
\* the payment fields returned an error, the call is answered with HTTP 200,
\* success: true, reused: false and the token and redirect URL the gateway
\* issued.
C14_PersistenceFailure ==
    [][(/\ hist'.op = "create"
        /\ gateway'.created = gateway.created + 1
        /\ hist'.out[2] = "write")
        => /\ resp'.status = 200
           /\ resp'.body.success
           /\ ~resp'.body.reused
           /\ resp'.body.snapToken = SnapToken(gateway'.created)
           /\ resp'.body.redirectUrl = RedirectUrl(gateway'.created)]_vars

\* the charge for o1 was created, nothing of it was stored, the caller got
\* the token
C14_Witness_TokenNotStored ==
    /\ hist.op = "create"
    /\ hist.out = <<TRUE, "write">>
    /\ hist.req.orderIds = <<"o1">>
    /\ gateway.created = 1
    /\ orders["o1"].snap_token = NULL
    /\ resp.status = 200
    /\ resp.body.snapToken = SnapToken(1)

\* the call recorded in h got as far as the gateway client: it loaded
\* orders, no business rule forbids paying them, and no token is reused
GatewayStep(tbl, h, now) ==
    /\ Loaded(h)
    /\ DOMAIN tbl \cap Range(h.req.orderIds) # {}
    /\ ~RuleViolated(tbl, h.req, now)
    /\ \/ h.req.forceNewToken
       \/ \A rows \in Orderings(fetchOrders(tbl, h.req.orderIds)) :
             ~canReuseToken(rows)

\* C20: when the call reaches the gateway client and MIDTRANS_SERVER_KEY is
\* not set, or the gateway answers non-2xx, the call is answered with HTTP
\* 400 and success: false, the error names the credential or carries the
\* gateway's response body, the gateway is called at most once, and no
\* order changes.
C20_GatewayFailure ==
    [][(/\ hist'.op = "create"
        /\ GatewayStep(orders, hist', clock)
        /\ env.MIDTRANS_SERVER_KEY = NULL \/ ~hist'.out[1])
        => /\ resp'.status = 400
           /\ resp'.body.success = FALSE
           /\ resp'.body.error
                 = IF env.MIDTRANS_SERVER_KEY = NULL
                   THEN "MIDTRANS_SERVER_KEY not configured"
                   ELSE "Midtrans API error: rejected"
           /\ gateway'.calls
                 = IF env.MIDTRANS_SERVER_KEY = NULL THEN gateway.calls
                   ELSE gateway.calls + 1
           /\ gateway'.created = gateway.created
           /\ orders' = orders]_vars

\* the gateway rejected the forced new charge of o1, which keeps the token
\* of its earlier charge
C20_Witness_Rejected ==
    /\ hist.op = "create"
    /\ hist.out = <<FALSE, "none">>
    /\ hist.req.orderIds = <<"o1">>
    /\ hist.req.forceNewToken
    /\ env.MIDTRANS_SERVER_KEY # NULL
    /\ orders["o1"].snap_token = SnapToken(1)
    /\ gateway.calls = 2 /\ gateway.created = 1
    /\ resp = jsonResponse([success |-> FALSE,
                            error |-> "Midtrans API error: rejected"], 400)

\* C29: a create-payment call leaves the status of every order as it was,
\* whatever path it takes.
C29_StatusUntouched ==
    [][hist'.op = "create" => StatusOf(orders') = StatusOf(orders)]_vars

\* the expired order o1 was charged anew: it stores the new token and is
\* still expired
C29_Witness_ExpiredCharged ==
    /\ hist.op = "create"
    /\ hist.req.orderIds = <<"o1">>
    /\ resp.status = 200 /\ ~resp.body.reused
    /\ orders["o1"].snap_token = resp.body.snapToken
    /\ orders["o1"].status = EXPIRED

\* the response of a create-payment call that returned a token
Succeeded(r) ==
    r.endpoint = "create-payment" /\ r.status = 200
        /\ "success" \in DOMAIN r.body /\ r.body.success

\* C27: a create-payment call returns a token, new or reused, only when
\* every order it loaded is pending.
C27_OnlyPendingPayable ==
    [][(hist'.op = "create" /\ Succeeded(resp'))
        => \A o \in DOMAIN orders \cap Range(hist'.req.orderIds) :
              orders[o].status = PENDING]_vars

\* the pending order o1 and the expired order o2 were charged together: the
\* gateway was called and the caller got a new token
C27_Witness_ExpiredPayable ==
    /\ hist.op = "create"
    /\ hist.req.orderIds = <<"o1", "o2">>
    /\ orders["o1"].status = PENDING
    /\ orders["o2"].status = EXPIRED
    /\ Succeeded(resp) /\ ~resp.body.reused
    /\ gateway.calls = 1 /\ gateway.created = 1
    /\ orders["o2"].snap_token = resp.body.snapToken

\* C28: when create-payment answers success: true, every id of the echoed
\* orderIds was loaded, baseAmount is the sum of total_amount over these
\* ids, and the count in a new bulk transaction id is the number of orders
\* charged.
C28_EveryOrderCovered ==
    [][(hist'.op = "create" /\ Succeeded(resp'))
        => LET ids == resp'.body.orderIds
           IN  /\ Range(ids) \subseteq DOMAIN orders
               /\ resp'.body.paymentInfo.baseAmount = SumTotal(RowsOf(orders, ids))
               /\ (~resp'.body.reused /\ Len(ids) > 1)
                    => IssuedId(gateway') = BulkId(clock, Cardinality(Range(ids)))]_vars

\* o1 and the unknown order o9 were requested: o1 alone was loaded and
\* charged, under a bulk id that counts two orders
C28_Witness_MissingOrder ==
    /\ hist.op = "create"
    /\ hist.req.orderIds = <<"o1", "o9">>
    /\ Succeeded(resp) /\ ~resp.body.reused
    /\ resp.body.orderIds = <<"o1", "o9">>
    /\ "o9" \notin DOMAIN orders
    /\ resp.body.paymentInfo.baseAmount = 500000
    /\ IssuedId(gateway) = BulkId(0, 2)
    /\ orders["o1"].transaction_id = BulkId(0, 2)

\* ------------------------------------------------------------------------
\* Specification of two handler runs that overlap.  Each run is a sequence
\* of store and gateway requests (every await of the handler); the requests
\* of the two runs interleave in any order.  The two runs fall into one
\* clock reading.
\* ------------------------------------------------------------------------

PayFieldNames ==
    {"snap_token", "payment_url", "transaction_id", "admin_fee", "payment_method"}

\* the payment fields of a row
PayFields(row) == [f \in PayFieldNames |-> row[f]]

NoPay == [f \in PayFieldNames |-> NULL]

\* a handler run that has not started
NewJob(kind, req) ==
    [kind |-> kind, req |-> req, pc |-> "start", rows |-> <<>>, ids |-> {},
     status |-> PENDING, pay |-> NoPay, wrote |-> 0]

\* the orders the webhook decides to update after its select on tbl
hookWriteSet(tbl, req) ==
    LET orderId == req.body.order_id
        status == mapTransactionStatus(req.body.transaction_status,
                                       req.body.fraud_status)
    IN  IF "updatedCount" \notin DOMAIN webhookServe(tbl, req, "none").resp.body
        THEN {}
        ELSE IF isBulkTransaction(orderId)
        THEN {o \in DOMAIN tbl : /\ tbl[o].transaction_id = orderId
                                 /\ ~SkipsDowngrade(tbl[o].status, status)}
        ELSE {o \in DOMAIN tbl : /\ o = extractOrderUuid(orderId)[1]
                                 /\ ~SkipsDowngrade(tbl[o].status, status)}

\* the two stores the runs start from: o1 charged alone, o1 and o2 charged
\* together
RaceStores ==
    {[orders |-> Charged(Restrict(FreshOrders, {"o1", "o2"}), ids, 0, 1),
      gateway |-> ChargedGateway(NoGateway, Restrict(FreshOrders, {"o1", "o2"}), ids, 0)] :
        ids \in {<<"o1">>, <<"o1", "o2">>}}

\* notifications of the gateway for the transaction it created, and
\* create-payment requests of the guest
RaceJobs(gw) ==
    {NewJob("webhook", [method |-> "POST", json |-> TRUE,
                        body |-> Notification(gw.sent[1].order_id, SERVER_KEY, st)]) :
        st \in {<<"settlement", ABSENT>>, <<"expire", ABSENT>>}}
    \cup {NewJob("create", PayRequest("POST", TRUE, ids, <<TRUE, NULL>>, force)) :
            ids \in {<<"o1">>, <<"o1", "o2">>}, force \in BOOLEAN}

InitRace ==
    /\ \E st \in RaceStores :
          /\ orders = st.orders
          /\ gateway = st.gateway
          /\ jobs \in [{1, 2} -> RaceJobs(st.gateway)]
          /\ hist = [op |-> "race", start |-> st.orders, created |-> st.gateway.created]
    /\ env = FullEnv
    /\ clock = 0
    /\ resp = NoResponse
    /\ arg = NULL
    /\ res = NULL

RaceFrame == UNCHANGED <<env, clock, hist, arg, res>>

\* the sequence number of the next store write of a create-payment run
NextWrite == 1 + Cardinality({j \in DOMAIN jobs : jobs[j].wrote > 0})

\* webhook: the select (by id or by transaction_id) and the skip filter
HookRead(j) ==
    /\ jobs[j].kind = "webhook" /\ jobs[j].pc = "start"
    /\ LET ids == hookWriteSet(orders, jobs[j].req)
           body == jobs[j].req.body
       IN  /\ jobs' = [jobs EXCEPT
                  ![j].pc = IF ids = {} THEN "done" ELSE "read",
                  ![j].ids = ids,
                  ![j].status = mapTransactionStatus(body.transaction_status,
                                                     body.fraud_status)]
           /\ resp' = IF ids = {}
                      THEN webhookServe(orders, jobs[j].req, "none").resp
                      ELSE resp
    /\ UNCHANGED <<orders, gateway>>
    /\ RaceFrame

\* webhook: the update of the rows chosen by the select
HookWrite(j) ==
    /\ jobs[j].kind = "webhook" /\ jobs[j].pc = "read"
    /\ orders' = SetStatus(orders, jobs[j].ids, jobs[j].status)
    /\ jobs' = [jobs EXCEPT ![j].pc = "done"]
    /\ resp' = successResponse([success |-> TRUE, message |-> "Updated order(s)",
                                orderId |-> jobs[j].req.body.order_id,
                                status |-> jobs[j].status,
                                updatedCount |-> Cardinality(jobs[j].ids)])
    /\ UNCHANGED gateway
    /\ RaceFrame

\* create-payment: fetchOrders, validateOrders and the reuse decision
CreateRead(j) ==
    /\ jobs[j].kind = "create" /\ jobs[j].pc = "start"
    /\ \E rows \in Orderings(fetchOrders(orders, jobs[j].req.orderIds)) :
          LET r == createServe(orders, gateway, clock, jobs[j].req, rows, TRUE, "none")
              goesOn == Succeeded(r.resp) /\ ~r.resp.body.reused
          IN  /\ jobs' = [jobs EXCEPT ![j].pc = IF goesOn THEN "read" ELSE "done",
                                      ![j].rows = rows]
              /\ resp' = IF goesOn THEN resp ELSE r.resp
    /\ UNCHANGED <<orders, gateway>>
    /\ RaceFrame

\* create-payment: generateTransactionId and the call of the gateway
CreateCharge(j) ==
    /\ jobs[j].kind = "create" /\ jobs[j].pc = "read"
    /\ \E gatewayOk \in BOOLEAN :
          LET r == createServe(orders, gateway, clock, jobs[j].req, jobs[j].rows,
                               gatewayOk, "none")
          IN  /\ gateway' = r.gateway
              /\ IF gatewayOk
                 THEN /\ jobs' = [jobs EXCEPT
                             ![j].pc = "charged",
                             ![j].pay = [snap_token |-> r.resp.body.snapToken,
                                         payment_url |-> r.resp.body.redirectUrl,
                                         transaction_id |-> IssuedId(r.gateway),
                                         admin_fee |->
                                             Some(r.resp.body.paymentInfo.adminFee),
                                         payment_method |->
                                             Some(r.resp.body.paymentInfo.paymentMethod)]]
                      /\ resp' = resp
                 ELSE /\ jobs' = [jobs EXCEPT ![j].pc = "done"]
                      /\ resp' = r.resp
    /\ UNCHANGED orders
    /\ RaceFrame

\* create-payment: updateOrdersWithPayment, one update statement, and the
\* response
CreateStore(j) ==
    /\ jobs[j].kind = "create" /\ jobs[j].pc = "charged"
    /\ \E fault \in {"none", "write"} :
          LET pay == jobs[j].pay
          IN  /\ orders' = updateOrdersWithPayment(orders, jobs[j].req.orderIds,
                               pay.transaction_id, pay.snap_token, pay.payment_url,
                               pay.admin_fee[1], pay.payment_method[1], fault)
              /\ jobs' = [jobs EXCEPT
                     ![j].pc = "done",
                     ![j].wrote = IF fault = "none" THEN NextWrite ELSE 0]
              /\ resp' = jsonResponse(
                     [success |-> TRUE, snapToken |-> pay.snap_token,
                      redirectUrl |-> pay.payment_url,
                      orderIds |-> jobs[j].req.orderIds, reused |-> FALSE,
                      paymentInfo |-> buildPaymentInfo(jobs[j].rows, FALSE)], 200)
    /\ UNCHANGED gateway
    /\ RaceFrame

NextRace ==
    \/ \E j \in {1, 2} : HookRead(j)
    \/ \E j \in {1, 2} : HookWrite(j)
    \/ \E j \in {1, 2} : CreateRead(j)
    \/ \E j \in {1, 2} : CreateCharge(j)
    \/ \E j \in {1, 2} : CreateStore(j)

SpecRace == InitRace /\ [][NextRace]_vars

AllDone == \A j \in DOMAIN jobs : jobs[j].pc = "done"

\* both runs are of this kind
BothAre(kind) == \A j \in DOMAIN jobs : jobs[j].kind = kind

\* C21: when two webhook runs for the same transaction, one reporting paid
\* and one a status other than paid, have both finished, every order that
\* the first wrote as paid is paid.
C21_ConcurrentWebhooks ==
    (/\ BothAre("webhook") /\ AllDone
     /\ jobs[1].req.body.order_id = jobs[2].req.body.order_id)
    => \A j, k \in DOMAIN jobs :
          (jobs[j].status = PAID /\ jobs[k].status # PAID)
          => \A o \in jobs[j].ids : orders[o].status = PAID

\* the settlement and the expiry of the charge of o1 both read o1 as
\* pending; the settlement wrote paid, then the expiry wrote expired
C21_Witness_PaidThenExpired ==
    /\ BothAre("webhook") /\ AllDone
    /\ jobs[1].status = PAID /\ jobs[1].ids = {"o1"}
    /\ jobs[2].status = EXPIRED /\ jobs[2].ids = {"o1"}
    /\ orders["o1"].status = EXPIRED

\* the run whose store write happened last
LastWriter == CHOOSE j \in DOMAIN jobs : \A k \in DOMAIN jobs : jobs[k].wrote <= jobs[j].wrote

\* C22: when two create-payment runs for the same orders, neither forcing a
\* new token, have both finished, at most two gateway transactions were
\* created, and if any of them wrote to the store, every order of the set
\* stores the payment fields of the run that wrote last.
C22_RacingCreate ==
    (/\ BothAre("create") /\ AllDone
     /\ jobs[1].req.orderIds = jobs[2].req.orderIds
     /\ ~jobs[1].req.forceNewToken /\ ~jobs[2].req.forceNewToken)
    => /\ gateway.created <= hist.created + 2
       /\ jobs[LastWriter].wrote > 0
            => \A o \in Range(jobs[1].req.orderIds) :
                  PayFields(orders[o]) = jobs[LastWriter].pay

\* both runs read o1 and o2 before either wrote: two transactions were
\* created, and both orders store what the second writer wrote
C22_Witness_TwoTransactions ==
    /\ BothAre("create") /\ AllDone
    /\ jobs[1].req.orderIds = <<"o1", "o2">> /\ jobs[2].req.orderIds = <<"o1", "o2">>
    /\ ~jobs[1].req.forceNewToken /\ ~jobs[2].req.forceNewToken
    /\ gateway.created = hist.created + 2
    /\ jobs[1].wrote = 2 /\ jobs[2].wrote = 1
    /\ jobs[1].pay.snap_token = SnapToken(2) /\ jobs[2].pay.snap_token = SnapToken(3)
    /\ PayFields(orders["o1"]) = jobs[1].pay
    /\ PayFields(orders["o2"]) = jobs[1].pay

\* C25: no step of a create-payment run that overlaps a webhook run changes
\* the payment fields of an order that is paid.
C25_FrozenOncePaid ==
    [][\A o \in DOMAIN orders :
          orders[o].status = PAID => PayFields(orders'[o]) = PayFields(orders[o])]_vars

\* the forced new charge of o1 read o1 as pending, the settlement of the
\* first charge marked o1 paid, and the new charge then stored its token on
\* the paid order
C25_Witness_PaidOverwritten ==
    /\ AllDone
    /\ jobs[1].kind = "create" /\ jobs[1].req.orderIds = <<"o1">>
    /\ jobs[1].wrote = 1
    /\ jobs[2].kind = "webhook" /\ jobs[2].status = PAID /\ jobs[2].ids = {"o1"}
    /\ hist.start["o1"].snap_token = SnapToken(1)
    /\ orders["o1"].status = PAID
    /\ orders["o1"].snap_token = SnapToken(2)

\* ------------------------------------------------------------------------
\* Specifications of the pure functions: arg is the input, res the result
\* ------------------------------------------------------------------------

NotRun == [done |-> FALSE]

Result(v) == [done |-> TRUE, value |-> v]

InitPure ==
    /\ orders = FreshOrders
    /\ gateway = NoGateway
    /\ env = FullEnv
    /\ clock = 0
    /\ resp = NoResponse
    /\ hist = NoHist
    /\ res = NotRun
    /\ jobs = NoJobs

Frame == UNCHANGED <<orders, env, clock, gateway, resp, hist, arg, jobs>>

\* --- mapTransactionStatus ---

MapInputs ==
    (MidtransStatus \cup {"chargeback", "SETTLEMENT", ""})
        \X (FraudStatus \cup {ABSENT, "review"})

InitMap == InitPure /\ arg \in MapInputs

MapStatus == ~res.done /\ res' = Result(mapTransactionStatus(arg[1], arg[2])) /\ Frame

SpecMap == InitMap /\ [][MapStatus]_vars

\* C4: the mapped status is the one the table gives for every pair.
C4_StatusMapping ==
    res.done =>
        LET ts == arg[1]
            fs == arg[2]
        IN  /\ (ts = "capture" /\ fs = "accept") => res.value = PAID
            /\ (ts = "capture" /\ fs = "challenge") => res.value = PENDING
            /\ (ts = "capture" /\ fs \in {"deny", ABSENT}) => res.value = FAILED
            /\ ts = "settlement" => res.value = PAID
            /\ ts \in {"pending", "authorize"} => res.value = PENDING
            /\ ts = "expire" => res.value = EXPIRED
            /\ ts \in {"deny", "cancel", "refund", "partial_refund"}
                  => res.value = FAILED
            /\ ts \notin MidtransStatus => res.value = PENDING
            /\ res.value \in HookOrderStatus

C4_Witness_Mapped == res.done /\ arg = <<"settlement", ABSENT>> /\ res.value = PAID

\* --- fee policy ---

LowWindow == 1000
ThresholdWindow == 1000

BaseAmounts ==
    (0..LowWindow)
        \cup ((QRIS_MAX_AMOUNT - ThresholdWindow)..(QRIS_MAX_AMOUNT + ThresholdWindow))
        \cup {500000, 700000}

\* the storefront's payment constants (feePercentage in tenths of a percent)
CLIENT_QRIS_MAX_AMOUNT == 628000

PAYMENT_METHODS ==
    [cash |-> [feeType |-> "fixed", feePercentageTenths |-> 0, feeValue |-> 0],
     qris |-> [feeType |-> "percentage", feePercentageTenths |-> 7, feeValue |-> 0],
     gopay |-> [feeType |-> "percentage", feePercentageTenths |-> 20, feeValue |-> 0],
     bank_transfer |-> [feeType |-> "fixed", feePercentageTenths |-> 0, feeValue |-> 4400],
     credit_card |-> [feeType |-> "percentage", feePercentageTenths |-> 29,
                      feeValue |-> 2000]]

\* takes the threshold amount itself as a bank transfer
clientCalculateAdminFeeBelow(baseAmount, paymentType) ==
    IF baseAmount < CLIENT_QRIS_MAX_AMOUNT
    THEN Ceil(baseAmount * PAYMENT_METHODS.qris.feePercentageTenths, 1000)
    ELSE PAYMENT_METHODS.bank_transfer.feeValue

\* the storefront's calculateAdminFee(baseAmount, paymentType?)
clientCalculateAdminFee(baseAmount, paymentType) ==
    IF paymentType # ABSENT /\ paymentType \in DOMAIN PAYMENT_METHODS
    THEN LET method == PAYMENT_METHODS[paymentType]
         IN  IF method.feeType = "percentage"
             THEN Ceil(baseAmount * method.feePercentageTenths, 1000)
             ELSE method.feeValue
    ELSE IF baseAmount <= CLIENT_QRIS_MAX_AMOUNT
    THEN Ceil(baseAmount * PAYMENT_METHODS.qris.feePercentageTenths, 1000)
    ELSE PAYMENT_METHODS.bank_transfer.feeValue

InitFee == InitPure /\ arg \in BaseAmounts

\* the payment info of the create path for one order of this amount, and
\* for two orders that add up to it
ResolveFee ==
    /\ ~res.done
    /\ res' = [done |-> TRUE,
               client |-> clientCalculateAdminFee(arg, ABSENT),
               server |-> calculateAdminFee(arg),
               single |-> buildPaymentInfo(<<NewOrder("o1", NULL, arg, NULL)>>, FALSE),
               split |-> buildPaymentInfo(
                             <<NewOrder("o1", NULL, arg \div 2, NULL),
                               NewOrder("o2", NULL, arg - arg \div 2, NULL)>>, FALSE)]
    /\ Frame

SpecFee == InitFee /\ [][ResolveFee]_vars

\* fee is the least integer with fee >= baseAmount * 0.7 / 100
IsCeilOfPercentage(fee, baseAmount) ==
    1000 * fee >= 7 * baseAmount /\ 1000 * (fee - 1) < 7 * baseAmount

\* C8: up to 628000 the method is qris and the fee the percentage rounded
\* up, above it the method is bank_transfer and the fee 4400, whatever the
\* orders that add up to the amount.
C8_FeePolicy ==
    res.done =>
        /\ res.split = res.single
        /\ res.single.baseAmount = arg
        /\ res.single.totalAmount = arg + res.single.adminFee
        /\ arg <= 628000 =>
              /\ res.single.paymentMethod = "qris"
              /\ IsCeilOfPercentage(res.single.adminFee, arg)
        /\ arg > 628000 =>
              /\ res.single.paymentMethod = "bank_transfer"
              /\ res.single.adminFee = 4400
        /\ arg = 500000 =>
              res.single.adminFee = 3500 /\ res.single.totalAmount = 503500
        /\ arg = 700000 =>
              res.single.adminFee = 4400 /\ res.single.totalAmount = 704400

C8_Witness_Threshold ==
    /\ res.done
    /\ arg = 628000
    /\ res.single.paymentMethod = "qris"
    /\ res.single.adminFee = 4396

\* C30: for every base amount the storefront's calculateAdminFee without a
\* payment type returns the fee of the create-payment function's
\* calculateAdminFee.
C30_ClientServerFee ==
    res.done => res.client = res.server.fee

\* at the threshold both compute the QRIS percentage
C30_Witness_ThresholdAgree ==
    /\ res.done
    /\ arg = CLIENT_QRIS_MAX_AMOUNT
    /\ res.client = 4396
    /\ res.server = [fee |-> 4396, method |-> QRIS, feeType |-> "0.7%"]

\* --- canReuseToken ---

MaxReuseLen == 3

ReuseTokens == {NULL, SnapToken(1), SnapToken(2)}

ReuseRows ==
    [snap_token : ReuseTokens,
     transaction_id : {NULL, BulkId(1, 2), BulkId(2, 2)},
     status : {PENDING, EXPIRED}]

ReuseInputs == UNION {[1..n -> ReuseRows] : n \in 0..MaxReuseLen}

InitReuse == InitPure /\ arg \in ReuseInputs

CheckReuse == ~res.done /\ res' = Result(canReuseToken(arg)) /\ Frame

SpecReuse == InitReuse /\ [][CheckReuse]_vars

\* eligibility as the specification states it
Eligible(rows) ==
    /\ Len(rows) >= 1
    /\ rows[1].snap_token # NULL
    /\ rows[1].status = PENDING
    /\ Len(rows) > 1 =>
          \A i \in 1..Len(rows) :
              /\ rows[i].snap_token = rows[1].snap_token
              /\ rows[i].transaction_id = rows[1].transaction_id
              /\ rows[i].status = PENDING

\* C9: canReuseToken is true exactly for the eligible lists, and is false
\* for a list of two or more orders that differs from a reusable one in
\* one order's snap_token.
C9_ReuseEligibility ==
    res.done =>
        /\ res.value <=> Eligible(arg)
        /\ \A i \in 1..Len(arg) : \A t \in ReuseTokens :
              LET other == [arg EXCEPT ![i].snap_token = t]
              IN  (Len(arg) >= 2 /\ Eligible(other) /\ t # arg[i].snap_token)
                      => ~res.value

\* two pending orders of one transaction, the second with another token
C9_Witness_TokenDiffers ==
    /\ res.done
    /\ ~res.value
    /\ arg = <<[snap_token |-> SnapToken(1), transaction_id |-> BulkId(1, 2),
                status |-> PENDING],
               [snap_token |-> SnapToken(2), transaction_id |-> BulkId(1, 2),
                status |-> PENDING]>>

====
